---------------------------- MODULE Spec2Model ----------------------------
(***************************************************************************)
(* A model of pybktree.BKTree: the node heap, add, find and the lazy       *)
(* iterator, with the distance function drawn from a family that holds     *)
(* metrics and non-metrics.                                                *)
(***************************************************************************)
EXTENDS Integers, Sequences, FiniteSets, Bags

VARIABLES
    distance_func,  \* self.distance_func: the name of the caller's function
    tree,           \* self.tree: None or the reference of the root node
    heap,           \* the node objects, by reference: (item, children_dict)
    inserted,       \* history: the items given to add, in call order
    op,             \* the last call made: its name and arguments
    ret,            \* what the last call returned (or raised)
    frame,          \* locals of an add call that is inside its while loop
    visited,        \* history: the nodes the running add call has stood on
    gen,            \* the generator object made by __iter__
    yielded,        \* history: the node references the generator produced
    snapshot,       \* history: how many nodes existed at the first yield
    born            \* history: for each node added after the first yield, how it was added

vars == <<distance_func, tree, heap, inserted, op, ret, frame, visited, gen, yielded, snapshot, born>>

-----------------------------------------------------------------------------
(* Bounds and the inputs the calls draw from *)

\* nodes a tree may hold under Spec and SpecAdd
MaxNodes == 3

\* nodes a tree may hold under SpecIter
MaxIterNodes == 4

\* length of the constructor's items argument
MaxCtorItems == 2

\* the small radii of find run from -2 to MaxRadius
MaxRadius == 2

\* the radius the docstring of find uses for "everything"
LargeRadius == 1000

\* the items that are added and queried
Items == {0, 1, 2, 3}

Radii == (-2 .. MaxRadius) \cup {LargeRadius}

\* the caller's distance functions: two metrics (hamming_distance of the
\* source, absolute difference), an asymmetric one, a symmetric one without
\* the triangle inequality, and one that goes negative
DistanceFuncs == {"hamming_distance", "absolute", "modular", "squared", "signed"}

\* Python's None, as a node reference
None == 0

-----------------------------------------------------------------------------
(* Distance functions *)

RECURSIVE Xor(_, _)
\* x ^ y on non-negative integers
Xor(x, y) ==
    IF x = 0 /\ y = 0 THEN 0
    ELSE (IF x % 2 = y % 2 THEN 0 ELSE 1) + 2 * Xor(x \div 2, y \div 2)

RECURSIVE Bin(_)
\* bin(v) without its "0b" prefix, as a sequence of digits
Bin(v) == IF v < 2 THEN <<v>> ELSE Append(Bin(v \div 2), v % 2)

\* s.count('1')
CountOnes(s) == Cardinality({i \in DOMAIN s : s[i] = 1})

hamming_distance(x, y) == CountOnes(Bin(Xor(x, y)))

\* distance_func(x, y) for the function named f
Call(f, x, y) ==
    CASE f = "hamming_distance" -> hamming_distance(x, y)
      [] f = "absolute" -> IF x < y THEN y - x ELSE x - y
      [] f = "modular" -> (x - y) % 3
      [] f = "squared" -> (x - y) * (x - y)
      [] f = "signed" -> x - y

-----------------------------------------------------------------------------
(* Nodes and the children dict (insertion ordered: a sequence of <<key, value>>) *)

\* (item, {})
NewNode(item) == [item |-> item, children |-> <<>>]

DictHas(d, k) == \E i \in DOMAIN d : d[i][1] = k

\* d.get(k)
DictGet(d, k) ==
    IF DictHas(d, k) THEN d[CHOOSE i \in DOMAIN d : d[i][1] = k][2] ELSE None

\* d[k] = v
DictSet(d, k, v) ==
    IF DictHas(d, k)
    THEN [i \in DOMAIN d |-> IF d[i][1] = k THEN <<k, v>> ELSE d[i]]
    ELSE Append(d, <<k, v>>)

\* d.values()
DictValues(d) == [i \in DOMAIN d |-> d[i][2]]

-----------------------------------------------------------------------------
(* add *)

\* faulty variant: the distance is taken from the parent to the item
AddIterSwapped(f, h, node, item) ==
    LET parent == h[node].item
        children == h[node].children
        distance == Call(f, parent, item)
        next == DictGet(children, distance)
    IN  IF next = None
        THEN [heap |-> Append([h EXCEPT ![node].children = DictSet(children, distance, Len(h) + 1)], NewNode(item)),
              node |-> next, done |-> TRUE]
        ELSE [heap |-> h, node |-> next, done |-> FALSE]

\* faulty variant: the new node is stored at its key whether or not the key
\* is taken
AddIterOverwrite(f, h, node, item) ==
    LET parent == h[node].item
        children == h[node].children
        distance == Call(f, item, parent)
    IN  [heap |-> Append([h EXCEPT ![node].children = DictSet(children, distance, Len(h) + 1)], NewNode(item)),
         node |-> None, done |-> TRUE]

\* faulty variant: the loop does not move to the child it found
AddIterStuck(f, h, node, item) ==
    LET parent == h[node].item
        children == h[node].children
        distance == Call(f, item, parent)
        next == DictGet(children, distance)
    IN  IF next = None
        THEN [heap |-> Append([h EXCEPT ![node].children = DictSet(children, distance, Len(h) + 1)], NewNode(item)),
              node |-> next, done |-> TRUE]
        ELSE [heap |-> h, node |-> node, done |-> FALSE]

\* one pass through the body of add's while loop, standing on node
AddIter(f, h, node, item) ==
    LET parent == h[node].item
        children == h[node].children
        distance == Call(f, item, parent)
        next == DictGet(children, distance)
    IN  IF next = None
        THEN [heap |-> Append([h EXCEPT ![node].children = DictSet(children, distance, Len(h) + 1)], NewNode(item)),
              node |-> next, done |-> TRUE]
        ELSE [heap |-> h, node |-> next, done |-> FALSE]

RECURSIVE AddLoop(_, _, _, _)
\* the while loop of add, run to its break
AddLoop(f, h, node, item) ==
    LET r == AddIter(f, h, node, item)
    IN  IF r.done THEN r.heap ELSE AddLoop(f, r.heap, r.node, item)

\* add(item), whole: the tree and heap it leaves
BKTree_add(f, t, h, item) ==
    IF t = None
    THEN [tree |-> Len(h) + 1, heap |-> Append(h, NewNode(item))]
    ELSE [tree |-> t, heap |-> AddLoop(f, h, t, item)]

RECURSIVE AddAll(_, _, _, _)
\* the constructor's loop: for item in items: _add(item)
AddAll(f, t, h, items) ==
    IF items = <<>> THEN [tree |-> t, heap |-> h]
    ELSE LET r == BKTree_add(f, t, h, Head(items))
         IN  AddAll(f, r.tree, r.heap, Tail(items))

-----------------------------------------------------------------------------
(* find *)

\* what a call leaves its caller: None, a list, or an exception
ReturnNone == [kind |-> "None", val |-> <<>>]

ReturnList(l) == [kind |-> "list", val |-> l]

Raise == [kind |-> "raise", val |-> <<>>]

\* while candidates:
NotEmpty(candidates) == candidates # <<>>

\* candidates.popleft(): IndexError on an empty deque
PopLeft(candidates) ==
    IF candidates = <<>>
    THEN [ok |-> FALSE, head |-> None, rest |-> <<>>]
    ELSE [ok |-> TRUE, head |-> Head(candidates), rest |-> Tail(candidates)]

\* faulty variant: the radius is taken by its magnitude
WithinAbs(distance, n) == distance <= (IF n < 0 THEN -n ELSE n)

\* distance <= n
Within(distance, n) == distance <= n

\* faulty variant: lower < d <= upper
UnprunedAboveLower(children, lower, upper) ==
    DictValues(SelectSeq(children, LAMBDA e : lower < e[1] /\ e[1] <= upper))

\* faulty variant: lower <= d < upper
UnprunedBelowUpper(children, lower, upper) ==
    DictValues(SelectSeq(children, LAMBDA e : lower <= e[1] /\ e[1] < upper))

\* c for d, c in children.items() if lower <= d <= upper
Unpruned(children, lower, upper) ==
    DictValues(SelectSeq(children, LAMBDA e : lower <= e[1] /\ e[1] <= upper))

\* faulty variant: a node is recorded when its distance is within upper
FindVisitUpper(f, h, node, item, n) ==
    LET candidate == h[node].item
        children == h[node].children
        distance == Call(f, candidate, item)
        lower == distance - n
        upper == distance + n
    IN  [found |-> IF Within(distance, upper) THEN << <<distance, candidate>> >> ELSE <<>>,
         extend |-> IF children # <<>> THEN Unpruned(children, lower, upper) ELSE <<>>]

\* the body of find's while loop for the node just popped
FindVisit(f, h, node, item, n) ==
    LET candidate == h[node].item
        children == h[node].children
        distance == Call(f, candidate, item)
        lower == distance - n
        upper == distance + n
    IN  [found |-> IF Within(distance, n) THEN << <<distance, candidate>> >> ELSE <<>>,
         extend |-> IF children # <<>> THEN Unpruned(children, lower, upper) ELSE <<>>]

RECURSIVE FindLoop(_, _, _, _, _, _)
\* find's while loop: the found list when the deque runs empty
FindLoop(f, h, candidates, found, item, n) ==
    IF ~NotEmpty(candidates) THEN ReturnList(found)
    ELSE LET p == PopLeft(candidates)
         IN  IF ~p.ok THEN Raise
             ELSE LET r == FindVisit(f, h, p.head, item, n)
                  IN  FindLoop(f, h, p.rest \o r.extend, found \o r.found, item, n)

RECURSIVE InsertByKey(_, _)
\* e placed behind every entry whose key is not larger
InsertByKey(s, e) ==
    IF s = <<>> THEN <<e>>
    ELSE IF s[Len(s)][1] <= e[1] THEN Append(s, e)
    ELSE Append(InsertByKey(SubSeq(s, 1, Len(s) - 1), e), s[Len(s)])

\* faulty variant: the list is returned in the order it was found
SortSkipped(s) == s

RECURSIVE SortByKey(_)
\* found.sort(key=_getitem0): stable, ascending in the first component
SortByKey(s) ==
    IF s = <<>> THEN <<>>
    ELSE InsertByKey(SortByKey(SubSeq(s, 1, Len(s) - 1)), s[Len(s)])

\* find(item, n), whole
BKTree_find(f, t, h, item, n) ==
    IF t = None THEN ReturnList(<<>>)
    ELSE LET r == FindLoop(f, h, <<t>>, <<>>, item, n)
         IN  IF r.kind = "list" THEN ReturnList(SortByKey(r.val)) ELSE r

-----------------------------------------------------------------------------
(* __iter__ : a generator, suspended at its yield *)

NoGen == [pc |-> "none", candidates |-> <<>>, children |-> None]

\* iter(tree): the generator exists, its body has not run
NewGen == [pc |-> "start", candidates |-> <<>>, children |-> None]

GenDone == [pc |-> "done", candidates |-> <<>>, children |-> None]

\* the head of __iter__'s while loop: pop and yield, or fall off the end
IterLoop(candidates) ==
    IF ~NotEmpty(candidates) THEN [gen |-> GenDone, out |-> <<>>, raise |-> FALSE]
    ELSE LET p == PopLeft(candidates)
         IN  IF ~p.ok THEN [gen |-> GenDone, out |-> <<>>, raise |-> TRUE]
             ELSE [gen |-> [pc |-> "yield", candidates |-> p.rest, children |-> p.head],
                   out |-> <<p.head>>, raise |-> FALSE]

\* faulty variant: the children of the yielded node replace the deque
ResumeReplace(g, t, h) ==
    CASE g.pc = "start" ->
            IF t = None THEN [gen |-> GenDone, out |-> <<>>, raise |-> FALSE]
            ELSE IterLoop(<<t>>)
      [] g.pc = "yield" -> IterLoop(DictValues(h[g.children].children))
      [] OTHER -> [gen |-> GenDone, out |-> <<>>, raise |-> FALSE]

\* faulty variant: the children are enqueued before the yield, not after it
ResumeExtendFirst(g, t, h) ==
    LET r == CASE g.pc = "start" ->
                    IF t = None THEN [gen |-> GenDone, out |-> <<>>, raise |-> FALSE]
                    ELSE IterLoop(<<t>>)
               [] g.pc = "yield" -> IterLoop(g.candidates)
               [] OTHER -> [gen |-> GenDone, out |-> <<>>, raise |-> FALSE]
    IN  IF r.out = <<>> THEN r
        ELSE [r EXCEPT !.gen.candidates = @ \o DictValues(h[r.gen.children].children)]

\* next(gen): run the body to its next yield (out holds the node) or its end
Resume(g, t, h) ==
    CASE g.pc = "start" ->
            IF t = None THEN [gen |-> GenDone, out |-> <<>>, raise |-> FALSE]
            ELSE IterLoop(<<t>>)
      [] g.pc = "yield" -> IterLoop(g.candidates \o DictValues(h[g.children].children))
      [] OTHER -> [gen |-> GenDone, out |-> <<>>, raise |-> FALSE]

RECURSIVE Drain(_, _, _)
\* the nodes a generator produces when nothing runs between its steps
Drain(g, t, h) ==
    LET r == Resume(g, t, h)
    IN  IF r.out = <<>> THEN <<>> ELSE r.out \o Drain(r.gen, t, h)

ItemsOf(h, nodes) == [i \in DOMAIN nodes |-> h[nodes[i]].item]

\* list(tree)
ListIter(t, h) == ItemsOf(h, Drain(NewGen, t, h))

-----------------------------------------------------------------------------
(* The state after construction *)

Idle == [pc |-> "idle", node |-> None, item |-> 0]

RECURSIVE SeqsUpTo(_, _)
\* the sequences over S of length at most k
SeqsUpTo(S, k) ==
    IF k = 0 THEN {<<>>}
    ELSE LET shorter == SeqsUpTo(S, k - 1)
         IN  shorter \cup {Append(q, x) : q \in shorter, x \in S}

\* BKTree(distance_func, items)
Init ==
    /\ distance_func \in DistanceFuncs
    /\ \E items \in SeqsUpTo(Items, MaxCtorItems) :
          LET r == AddAll(distance_func, None, <<>>, items)
          IN  /\ tree = r.tree
              /\ heap = r.heap
              /\ inserted = items
    /\ op = [name |-> "__init__", item |-> 0, n |-> 0]
    /\ ret = ReturnNone
    /\ frame = Idle
    /\ visited = <<>>
    /\ gen = NoGen
    /\ yielded = <<>>
    /\ snapshot = 0
    /\ born = <<>>

-----------------------------------------------------------------------------
(* Calls *)

\* the parent of node c, None for the root
ParentOf(h, c) ==
    IF \E p \in DOMAIN h : \E i \in DOMAIN h[p].children : h[p].children[i][2] = c
    THEN CHOOSE p \in DOMAIN h : \E i \in DOMAIN h[p].children : h[p].children[i][2] = c
    ELSE None

\* the nodes whose children the suspended generator has already enqueued
Expanded == {yielded[i] : i \in DOMAIN yielded} \ {gen.children}

\* tree.add(item), run to its return
Add(item) ==
    /\ frame.pc = "idle"
    /\ LET r == BKTree_add(distance_func, tree, heap, item)
           new == Len(heap) + 1
       IN  /\ tree' = r.tree
           /\ heap' = r.heap
           /\ born' = CASE gen.pc = "done" -> Append(born, "after")
                        [] gen.pc = "yield" /\ ParentOf(r.heap, new) \in Expanded -> Append(born, "late")
                        [] gen.pc = "yield" -> Append(born, "open")
                        [] OTHER -> born
    /\ inserted' = Append(inserted, item)
    /\ op' = [name |-> "add", item |-> item, n |-> 0]
    /\ ret' = ReturnNone
    /\ UNCHANGED <<distance_func, frame, visited, gen, yielded, snapshot>>

\* tree.find(item, n), run to its return
Find(item, n) ==
    /\ frame.pc = "idle"
    /\ op' = [name |-> "find", item |-> item, n |-> n]
    /\ ret' = BKTree_find(distance_func, tree, heap, item, n)
    /\ UNCHANGED <<distance_func, tree, heap, inserted, frame, visited, gen, yielded, snapshot, born>>

\* tree.add(item) entered: lines 80 to 86, up to the while loop
AddCall(item) ==
    /\ frame.pc = "idle"
    /\ IF tree = None
       THEN /\ tree' = Len(heap) + 1
            /\ heap' = Append(heap, NewNode(item))
            /\ frame' = Idle
       ELSE /\ UNCHANGED <<tree, heap>>
            /\ frame' = [pc |-> "loop", node |-> tree, item |-> item]
    /\ visited' = <<>>
    /\ inserted' = Append(inserted, item)
    /\ op' = [name |-> "add", item |-> item, n |-> 0]
    /\ ret' = ReturnNone
    /\ UNCHANGED <<distance_func, gen, yielded, snapshot, born>>

\* one pass of add's while loop
AddStep ==
    /\ frame.pc = "loop"
    /\ LET r == AddIter(distance_func, heap, frame.node, frame.item)
       IN  /\ heap' = r.heap
           /\ frame' = IF r.done THEN Idle ELSE [frame EXCEPT !.node = r.node]
    /\ visited' = Append(visited, frame.node)
    /\ UNCHANGED <<distance_func, tree, inserted, op, ret, gen, yielded, snapshot, born>>

\* iter(tree)
IterCall ==
    /\ frame.pc = "idle"
    /\ gen.pc = "none"
    /\ gen' = NewGen
    /\ op' = [name |-> "__iter__", item |-> 0, n |-> 0]
    /\ ret' = ReturnNone
    /\ UNCHANGED <<distance_func, tree, heap, inserted, frame, visited, yielded, snapshot, born>>

\* next(gen) on a generator that has not ended
IterNext ==
    /\ frame.pc = "idle"
    /\ gen.pc \in {"start", "yield"}
    /\ LET r == Resume(gen, tree, heap)
       IN  /\ gen' = r.gen
           /\ yielded' = yielded \o r.out
           /\ ret' = IF r.raise THEN Raise
                     ELSE IF r.out = <<>> THEN [kind |-> "StopIteration", val |-> <<>>]
                     ELSE ReturnList(ItemsOf(heap, r.out))
    /\ snapshot' = IF gen.pc = "start" THEN Len(heap) ELSE snapshot
    /\ op' = [name |-> "next", item |-> 0, n |-> 0]
    /\ UNCHANGED <<distance_func, tree, heap, inserted, frame, visited, born>>

-----------------------------------------------------------------------------
(* Specifications *)

\* add and find, each call whole
Next ==
    \/ \E item \in Items : Len(heap) < MaxNodes /\ Add(item)
    \/ \E item \in Items, n \in Radii : Find(item, n)

Spec == Init /\ [][Next]_vars

\* add, one loop pass at a time
NextAdd ==
    \/ \E item \in Items : Len(heap) < MaxNodes /\ AddCall(item)
    \/ AddStep

SpecAdd == Init /\ [][NextAdd]_vars /\ WF_vars(AddStep)

\* add calls between the steps of one traversal
NextIter ==
    \/ \E item \in Items : Len(heap) < MaxIterNodes /\ Add(item)
    \/ IterCall
    \/ IterNext

SpecIter == Init /\ [][NextIter]_vars /\ WF_vars(IterNext)

-----------------------------------------------------------------------------
(* Vocabulary of the properties *)

\* the multiset of the entries of a sequence
SeqToBag(s) ==
    [x \in {s[i] : i \in DOMAIN s} |-> Cardinality({i \in DOMAIN s : s[i] = x})]

\* symmetric, zero on equal items, triangle inequality
IsMetric(f) ==
    /\ \A x, y \in Items : Call(f, x, y) = Call(f, y, x)
    /\ \A x \in Items : Call(f, x, x) = 0
    /\ \A x, y, z \in Items : Call(f, x, z) <= Call(f, x, y) + Call(f, y, z)

NonNegative(f) == \A x, y \in Items : Call(f, x, y) >= 0

\* the linear scan: (distance_func(x, q), x) for each inserted x within n of q
BruteForce(f, xs, q, n) ==
    LET pairs == [i \in DOMAIN xs |-> <<Call(f, xs[i], q), xs[i]>>]
    IN  SelectSeq(pairs, LAMBDA e : e[1] <= n)

IsSorted(l) == \A i \in 1 .. (Len(l) - 1) : l[i][1] <= l[i + 1][1]

\* every key stored in some children dict
ChildKeys(h) == UNION {{h[p].children[i][1] : i \in DOMAIN h[p].children} : p \in DOMAIN h}

\* the tree of the documented scenario
ScenarioTree == AddAll("hamming_distance", None, <<>>, <<0, 4, 5, 14, 15>>)

ScenarioFind(n) == BKTree_find("hamming_distance", ScenarioTree.tree, ScenarioTree.heap, 13, n)

-----------------------------------------------------------------------------
(* C1 *)

\* C1: under a metric, find(q, n) with n >= 0 returns, as a multiset, exactly
\* the pairs (distance_func(x, q), x) of the inserted items x within n of q;
\* the documented scenario [0, 4, 5, 14, 15], query 13, is an instance.
C1_FindIsBruteForce ==
    /\ (op.name = "find" /\ op.n >= 0 /\ IsMetric(distance_func)) =>
          /\ ret.kind = "list"
          /\ SeqToBag(ret.val) = SeqToBag(BruteForce(distance_func, inserted, op.item, op.n))
    /\ SeqToBag(ScenarioFind(1).val) = SeqToBag(<< <<1, 5>>, <<1, 15>> >>)
    /\ SeqToBag(ScenarioFind(2).val) = SeqToBag(<< <<1, 5>>, <<1, 15>>, <<2, 4>>, <<2, 14>> >>)

\* a metric query that keeps some stored items and leaves others out
C1_Witness ==
    /\ op.name = "find" /\ op.n >= 0 /\ IsMetric(distance_func)
    /\ Len(heap) >= 3
    /\ Len(ret.val) >= 1
    /\ Len(ret.val) < Len(heap)

(* C2 *)

\* C2: the items of a full traversal are, as a multiset, the inserted items
C2_TraversalIsInserted == SeqToBag(ListIter(tree, heap)) = SeqToBag(inserted)

\* an item inserted twice, the last insertion through add
C2_Witness ==
    /\ op.name = "add"
    /\ Len(inserted) >= 3
    /\ \E i, j \in DOMAIN inserted : i < j /\ inserted[i] = inserted[j]
    /\ \E i, j \in DOMAIN inserted : inserted[i] # inserted[j]

(* C3 *)

\* C3: the list find returns ascends in its distance component
C3_FindSorted == op.name = "find" => (ret.kind = "list" /\ IsSorted(ret.val))

\* a query whose matches were met in an order that does not ascend
C3_Witness ==
    /\ op.name = "find"
    /\ tree # None
    /\ ~IsSorted(FindLoop(distance_func, heap, <<tree>>, <<>>, op.item, op.n).val)

(* C4 *)

\* C4: with a non-negative distance function, a find with n < 0 returns the
\* empty list, raises nothing and leaves the tree as it was
C4_NegativeRadius ==
    [][(op'.name = "find" /\ op'.n < 0 /\ NonNegative(distance_func)) =>
          (ret' = ReturnList(<<>>) /\ tree' = tree /\ heap' = heap)]_vars

\* a negative-radius query on a tree that holds the queried item
C4_Witness ==
    /\ op.name = "find" /\ op.n < 0 /\ NonNegative(distance_func)
    /\ \E i \in DOMAIN heap : heap[i].item = op.item
    /\ Len(heap) >= 2
    /\ ret = ReturnList(<<>>)

(* C5 *)

\* the radius covers every distance from a stored item to q and every child key
CoversAll(f, t, h, q, n) ==
    /\ \A i \in DOMAIN h : Call(f, h[i].item, q) <= n
    /\ \A k \in ChildKeys(h) : k <= n

C6_KeyInvariant ==
    \A p \in DOMAIN heap : \A i \in DOMAIN heap[p].children :
        LET e == heap[p].children[i]
        IN  Call(distance_func, heap[e[2]].item, heap[p].item) = e[1]

\* an edge whose key differs from the distance taken the other way round
C6_Witness ==
    /\ Len(heap) >= 3
    /\ \E p \in DOMAIN heap : \E i \in DOMAIN heap[p].children :
          LET e == heap[p].children[i]
          IN  Call(distance_func, heap[p].item, heap[e[2]].item) # e[1]

(* C7 *)

\* node new hangs under exactly one old node, at a key that node did not
\* have, and every other old node is as it was
AttachedOnce(h, h2, new) ==
    \E p \in DOMAIN h :
        /\ h2[p].item = h[p].item
        /\ Len(h2[p].children) = Len(h[p].children) + 1
        /\ SubSeq(h2[p].children, 1, Len(h[p].children)) = h[p].children
        /\ h2[p].children[Len(h2[p].children)][2] = new
        /\ ~DictHas(h[p].children, h2[p].children[Len(h2[p].children)][1])
        /\ \A q \in DOMAIN h : q # p => h2[q] = h[q]

\* C7: an add on a non-empty tree attaches one new leaf holding the item at a
\* free key of one node and changes nothing else; on an empty tree it only
\* makes the item the childless root
C7_AddFrame ==
    [][op'.name = "add" =>
          /\ Len(heap') = Len(heap) + 1
          /\ heap'[Len(heap')] = NewNode(op'.item)
          /\ IF tree = None
             THEN tree' = Len(heap') /\ Len(heap) = 0
             ELSE tree' = tree /\ AttachedOnce(heap, heap', Len(heap'))]_vars

\* an add that went past an occupied key and attached below the root's child
C7_Witness ==
    /\ op.name = "add"
    /\ Len(heap) >= 3
    /\ ParentOf(heap, Len(heap)) # tree

(* C8 *)

\* node c is stored in the children dict of node p
IsChild(h, p, c) == \E i \in DOMAIN h[p].children : h[p].children[i][2] = c

NoRepeats(s) == \A i, j \in DOMAIN s : i # j => s[i] # s[j]

\* C8: every add ends; each loop pass attaches the new node and stops or
\* steps down into a child, no node is stood on twice, and the passes (one
\* distance computation each) number at most the items stored before the call
C8_AddTerminates ==
    /\ [](NoRepeats(visited) /\ (op.name = "add" => Len(visited) <= Len(inserted) - 1))
    /\ [][frame.pc = "loop" =>
            \/ frame'.pc = "idle" /\ Len(heap') = Len(heap) + 1
            \/ frame'.pc = "loop" /\ heap' = heap /\ IsChild(heap, frame.node, frame'.node)]_vars
    /\ (frame.pc = "loop") ~> (frame.pc = "idle")

\* an add that stepped down once and then attached
C8_Witness ==
    /\ op.name = "add"
    /\ frame.pc = "idle"
    /\ Len(visited) >= 2
    /\ Len(visited) = Len(inserted) - 1

(* C9 *)

\* C9: for any non-negative distance function, metric or not, find raises
\* nothing and what it returns is a sub-multiset of the linear scan: every
\* pair is (distance_func(x, q), x) for a stored x within n, once per copy
C9_FindSound ==
    (op.name = "find" /\ NonNegative(distance_func)) =>
        /\ ret.kind = "list"
        /\ SeqToBag(ret.val) \sqsubseteq SeqToBag(BruteForce(distance_func, inserted, op.item, op.n))

\* a non-metric query that returned something and left a qualifying item out
C9_Witness ==
    /\ op.name = "find" /\ NonNegative(distance_func) /\ ~IsMetric(distance_func)
    /\ Len(ret.val) >= 1
    /\ Len(ret.val) < Len(BruteForce(distance_func, inserted, op.item, op.n))

(* C10 *)

Produced == {yielded[i] : i \in DOMAIN yielded}

\* the node the i-th entry of born stands for
BornNode(i) == snapshot + i

\* what holds of a traversal whatever happens to the nodes added during it
IterSafe ==
    /\ NoRepeats(yielded)
    /\ ret.kind # "raise"
    /\ gen.pc = "done" => \A c \in 1 .. snapshot : c \in Produced

\* C10 as stated: a node added during the traversal is produced when its
\* parent had not yet been expanded and missed when it had
C10_Original ==
    /\ IterSafe
    /\ gen.pc = "done" =>
          \A i \in DOMAIN born :
              /\ born[i] = "open" => BornNode(i) \in Produced
              /\ born[i] = "late" => BornNode(i) \notin Produced

\* C10 amended: a node added during the traversal is produced exactly when
\* its parent had not yet been expanded and is itself produced
C10_InterleavedAdds ==
    /\ [](/\ IterSafe
          /\ gen.pc = "done" =>
                \A i \in DOMAIN born :
                    BornNode(i) \in Produced <=>
                        (born[i] = "open" /\ ParentOf(heap, BornNode(i)) \in Produced))
    /\ (gen.pc \in {"start", "yield"}) ~> (gen.pc = "done")

\* a finished traversal that produced one node added during it and missed
\* another
C10_Witness ==
    /\ gen.pc = "done"
    /\ snapshot >= 2
    /\ \E i, j \in DOMAIN born :
          /\ born[i] = "open" /\ BornNode(i) \in Produced
          /\ born[j] = "late" /\ BornNode(j) \notin Produced

=============================================================================
